---- MODULE Spec2Model ----
(***************************************************************************)
(* A model of the report-RAG backend: the query pipeline of                *)
(* backend/app/services/rag_service.py (query_rag, process_pdf_upload,     *)
(* log_query), the request handlers of backend/app/api/endpoints.py that   *)
(* drive it (chat, upload_pdf, custom_pdf_query_endpoint,                  *)
(* report_query_endpoint) and the text helpers of                          *)
(* backend/app/utils/helper_functions.py.                                  *)
(*                                                                         *)
(* Requests are asyncio tasks on one event loop.  `running` is the task    *)
(* that holds the loop: a task keeps it from one await to the next, so the *)
(* synchronous calls of a handler (openai.chat.completions.create,         *)
(* colpali_model.search, custom_pdf_model.index) run with the loop held.   *)
(*                                                                         *)
(* Text is a sequence of tokens (words, blanks, newlines, quotes and the   *)
(* keyword marker), so that strip, concatenation and the regular           *)
(* expressions of the helpers are computed, not assumed.                   *)
(***************************************************************************)
EXTENDS Integers, Sequences, FiniteSets, TLC

\* ------------------------------------------------------------------ bounds
\* Transient failures the upstream LLM answers one request with before it
\* stops failing.
MaxFail == 2

\* Longest text, in tokens, the completion call returns in a behaviour of
\* SpecAnswers.
MaxAnswerLen == 6

\* The requests of one behaviour: one of each kind, arriving in any order, so
\* that a query, an upload and a chat can overlap or follow one another.
QuerySlots == {"query"}
UploadSlots == {"upload"}
ChatSlots == {"chat"}
\* The upload requests of a behaviour of SpecUploads: two, so that one upload
\* can follow or overlap another.
Uploads == UploadSlots \cup {"reupload"}
Tasks == QuerySlots \cup Uploads \cup ChatSlots

\* ------------------------------------------------------------------ text
Whitespace == {" ", "\n"}

Filler == "No relevant context is available."

Min(S) == CHOOSE x \in S : \A y \in S : x <= y
Max(S) == CHOOSE x \in S : \A y \in S : x >= y

\* str.strip(): leading and trailing whitespace removed.
strip(s) ==
    LET keep == {i \in 1..Len(s) : s[i] \notin Whitespace}
    IN  IF keep = {} THEN <<>> ELSE SubSeq(s, Min(keep), Max(keep))

Contains(s, tok) == \E i \in 1..Len(s) : s[i] = tok

\* msg.get('content', ''): a message may lack the key.
Msg(c) == [has_content |-> TRUE, content |-> c]
NoContentMsg == [has_content |-> FALSE, content |-> <<>>]
get_content(m) == IF m.has_content THEN m.content ELSE <<>>

\* build_query without its conditional: the newline is always put in front.
build_query_unconditional(relevant_context, current_query) ==
    relevant_context \o <<"\n">> \o current_query

\* query = relevant_context + '\n' + current_query if relevant_context
\*         else current_query
build_query(relevant_context, current_query) ==
    IF relevant_context # <<>>
    THEN relevant_context \o <<"\n">> \o current_query
    ELSE current_query

\* ------------------------------------------------------------------ helpers
\* The marker of the keyword section, matched with (?i).
MarkerTokens == {"**Keywords:**", "**keywords:**"}

\* re.search(r'(?i)\*\*keywords:\*\*\s*(.+)', answer): the positions where
\* group 1 can start after the marker at i.  \s* is greedy and backtracks, and
\* '.' matches no newline.
group_starts(s, i) ==
    {p \in (i + 1)..Len(s) :
        /\ s[p] # "\n"
        /\ \A k \in (i + 1)..(p - 1) : s[k] \in Whitespace}

\* The text of group 1 of the leftmost match, or <<>> without a match.
keywords_text(s) ==
    LET hits == {i \in 1..Len(s) : s[i] \in MarkerTokens /\ group_starts(s, i) # {}}
    IN  IF hits = {} THEN <<>>
        ELSE LET g  == Max(group_starts(s, Min(hits)))
                 nl == {k \in g..Len(s) : s[k] = "\n"}
                 e  == IF nl = {} THEN Len(s) ELSE Min(nl) - 1
             IN  SubSeq(s, g, e)

\* re.findall(r"'([^']+)'", text) scanning from position i.
RECURSIVE findall_quoted(_, _)
findall_quoted(t, i) ==
    IF i > Len(t) THEN <<>>
    ELSE LET closing == {k \in (i + 1)..Len(t) : t[k] = "'"}
         IN  IF t[i] = "'" /\ closing # {} /\ Min(closing) > i + 1
             THEN <<SubSeq(t, i + 1, Min(closing) - 1)>>
                      \o findall_quoted(t, Min(closing) + 1)
             ELSE findall_quoted(t, i + 1)

extract_keywords(answer) == findall_quoted(keywords_text(answer), 1)

\* remove_keywords without (?i): only the capitalised marker splits.
remove_keywords_case_sensitive(answer) ==
    LET marks == {i \in 1..Len(answer) : answer[i] = "**Keywords:**"}
    IN  IF marks = {} THEN strip(answer)
        ELSE strip(SubSeq(answer, 1, Min(marks) - 1))

\* re.split(marker, answer, maxsplit=1)[0].strip()
remove_keywords(answer) ==
    LET marks == {i \in 1..Len(answer) : answer[i] \in MarkerTokens}
    IN  IF marks = {} THEN strip(answer)
        ELSE strip(SubSeq(answer, 1, Min(marks) - 1))

\* The OCR and the drawing are external: the result is the image it was
\* made from together with the keywords that were looked for.
highlight_keywords_in_image(image_b64, keywords) ==
    [image |-> image_b64, keywords |-> keywords]

\* k of colpali_model.search(query, k=5)
SearchK == 5
num_images_to_highlight == 2

\* One indexed page.
Page(doc, n) == [doc_id |-> doc, page_num |-> n, base64 |-> <<doc, n>>]

\* model.index(input_path, overwrite=True): the pages of the input replace
\* whatever the model held.
index_of(doc, pages) == [n \in 1..pages |-> Page(doc, n)]

\* colpali_model.search(query, k): the k best pages of the model's index, in
\* rank order; an index without pages gives no results.
search(index, query, k) ==
    SubSeq(index, 1, Min({k, Len(index)}))

\* ------------------------------------------------------------------ inputs
\* Conversations a request can carry.
Conversations ==
    { <<>>,
      << Msg(<<" ", "revenue", "\n">>) >>,
      << Msg(<<"BMW">>), Msg(<<"revenue">>) >>,
      << Msg(<<"BMW">>), NoContentMsg, Msg(<<" ", "revenue">>) >> }

\* Bodies of a chat request.
ChatBodies == { <<>>, << Msg(<<"revenue">>) >> }

\* Texts the context-extraction call can return (message.content).
ContextTexts ==
    { <<>>, <<" ", "\n">>, <<" ", "BMW", "\n">>, <<Filler>> }

\* Texts the completion call can return.
AnswerTexts ==
    { <<"found", " ">>,
      <<"found", "\n", "**Keywords:**", " ", "'", "BMW", "'", ",", "'", "Q3", "'">>,
      <<"found", " ", "**keywords:**", "\n">> }

\* Every text of at most MaxAnswerLen tokens the completion call can return:
\* words, blanks, newlines, quotes and the marker in two spellings.
AnswerTokens == {"found", " ", "\n", "'", "**Keywords:**", "**keywords:**"}
AnswerSpace == UNION {[1..n -> AnswerTokens] : n \in 0..MaxAnswerLen}

\* What one call of openai.chat.completions.create can do: return a text,
\* raise APITimeoutError, raise an APIError that carries a status code
\* ("api"), raise an APIError that carries none, as a connection error does
\* ("connection"), or raise something that is no APIError ("other").
StatusCodes == {429, 502, 503, 504, 400, 500}
Failures ==
    {[type |-> "timeout", status |-> 0], [type |-> "connection", status |-> 0],
     [type |-> "other", status |-> 0]}
        \cup {[type |-> "api", status |-> c] : c \in StatusCodes}

\* The files a client uploads.
PdfType == "application/pdf"
UploadFiles ==
    { [filename |-> "a.pdf", content_type |-> PdfType, pages |-> 2],
      [filename |-> "b.pdf", content_type |-> PdfType, pages |-> 1],
      [filename |-> "notes.txt", content_type |-> "text/plain", pages |-> 1] }
NoFile == [filename |-> "", content_type |-> "", pages |-> 0]
Filenames == {f.filename : f \in UploadFiles}

\* The fixed corpus under data/raw.
ReportPages == 6
ReportCorpus == index_of("reports", ReportPages)

\* ------------------------------------------------------------------ retry policy
\* What an except clause of a retry loop does: retry after the sleep or
\* re-raise, and the log entry it schedules first ("none": no entry).
Handling(do, log, exc) == [do |-> do, log |-> log, exc |-> exc]

\* except clauses of the context-extraction loop (retry_delay is bound on the
\* line above the loop).  Reading e.status_code of an APIError that has none
\* raises AttributeError inside the clause, which no later clause catches.
context_extraction_except(e) ==
    IF e.type = "timeout" THEN Handling("retry", "ctx_retry", "")
    ELSE IF e.type = "connection" THEN Handling("raise", "none", "AttributeError")
    ELSE IF e.type = "api"
         THEN IF e.status \in {502, 503, 504, 429}
              THEN Handling("retry", "ctx_retry", "")
              ELSE Handling("raise", "none", "APIError")
         ELSE Handling("raise", "ctx_unexpected", "Exception")

\* completion_except without the status test: every APIError is retried.
completion_except_any_status(e, retry_delay_bound) ==
    IF e.type \in {"timeout", "connection", "api"}
    THEN IF retry_delay_bound THEN Handling("retry", "cmp_retry", "")
         ELSE Handling("raise", "none", "UnboundLocalError")
    ELSE Handling("raise", "cmp_unexpected", "Exception")

\* except clauses of the completion loop.  The log text of a retry is an
\* f-string that reads retry_delay, a local bound only inside
\* `if len(messages) > 1`: unbound, evaluating it raises UnboundLocalError
\* before the entry is scheduled and before the sleep.
completion_except(e, retry_delay_bound) ==
    IF e.type = "timeout"
    THEN IF retry_delay_bound THEN Handling("retry", "cmp_retry", "")
         ELSE Handling("raise", "none", "UnboundLocalError")
    ELSE IF e.type = "connection" THEN Handling("raise", "none", "AttributeError")
    ELSE IF e.type = "api"
         THEN IF e.status \in {502, 503, 504, 429}
              THEN IF retry_delay_bound THEN Handling("retry", "cmp_retry", "")
                   ELSE Handling("raise", "none", "UnboundLocalError")
              ELSE Handling("raise", "none", "APIError")
         ELSE Handling("raise", "cmp_unexpected", "Exception")

\* Whether the upstream's failure is one the retry policy calls transient.
Transient(e) ==
    e.type = "timeout" \/ (e.type = "api" /\ e.status \in {429, 502, 503, 504})

\* ------------------------------------------------------------------ state
VARIABLES
    custom_pdf_model,   \* endpoints.custom_pdf_model: the object the global names
    report_model,       \* endpoints.report_model
    models,             \* models[m]: the index held by model object m
    uploaded_dir,       \* data/uploaded: filename -> "absent" | "open" | "written"
    task,               \* task[t]: the request handled in slot t
    running,            \* the task holding the event loop, or "free"
    log_tasks,          \* log_query tasks created and not yet run
    log_file            \* data/log/queries.log: the number of lines appended

vars == <<custom_pdf_model, report_model, models, uploaded_dir, task, running,
          log_tasks, log_file>>

\* Bookkeeping of one LLM call site: attempts made, transient failures the
\* upstream answered with, backoff sleeps begun, whether a text came back, and
\* what the last attempt met ("ok", "transient", "fatal").
NoCall == [attempts |-> 0, fails |-> 0, sleeps |-> 0, ok |-> FALSE, last |-> "none"]

Idle ==
    [ kind |-> "idle", pc |-> "idle",
      colpali_model |-> 0, messages |-> <<>>, retry_delay_bound |-> FALSE,
      relevant_context |-> <<>>, query |-> <<>>, results |-> <<>>,
      answer |-> <<>>, response |-> [none |-> TRUE], outcome |-> "pending",
      completion |-> <<>>, keywords |-> <<>>, detail |-> "",
      file |-> NoFile,
      ctx |-> NoCall, cmp |-> NoCall, searched |-> <<>>, annotated |-> FALSE,
      highlight_calls |-> 0, scheduled |-> <<>>, file_written |-> FALSE,
      index_calls |-> 0 ]

Init ==
    /\ models = << <<>>, ReportCorpus >>
    /\ custom_pdf_model = 1
    /\ report_model = 2
    /\ uploaded_dir = [f \in Filenames |-> "absent"]
    /\ task = [t \in Tasks |-> Idle]
    /\ running = "free"
    /\ log_tasks = <<>>
    /\ log_file = 0

\* ------------------------------------------------------------------ logging
\* asyncio.create_task(log_query(...)): the write is scheduled, not awaited.
create_log_task(pending, kind) ==
    IF kind = "none" THEN pending ELSE Append(pending, kind)

scheduled_log(done, kind) ==
    IF kind = "none" THEN done ELSE Append(done, kind)

\* A scheduled log_query runs when the loop is free and appends its line.
log_query ==
    /\ running = "free"
    /\ log_tasks # <<>>
    /\ log_file' = log_file + 1
    /\ log_tasks' = Tail(log_tasks)
    /\ UNCHANGED <<custom_pdf_model, report_model, models, uploaded_dir, task,
                   running>>

\* log_query awaited by the handler: the exception of the write ends the
\* queries in flight.
log_query_fails_raises ==
    /\ running = "free"
    /\ log_tasks # <<>>
    /\ log_tasks' = Tail(log_tasks)
    /\ task' = [t \in Tasks |->
                  IF task[t].kind \in {"custom", "report"} /\ task[t].pc # "done"
                  THEN [task[t] EXCEPT !.pc = "done", !.outcome = "OSError"]
                  ELSE task[t]]
    /\ UNCHANGED <<custom_pdf_model, report_model, models, uploaded_dir, running,
                   log_file>>

\* mkdir, open or write raises inside the detached task: the exception stays
\* in the task object and no line is written.
log_query_fails ==
    /\ running = "free"
    /\ log_tasks # <<>>
    /\ log_tasks' = Tail(log_tasks)
    /\ UNCHANGED <<custom_pdf_model, report_model, models, uploaded_dir, task,
                   running, log_file>>

\* ------------------------------------------------------------------ query endpoints
\* A handler starts on a free loop in a free slot.
Accepting(t) ==
    /\ running = "free"
    /\ task[t].kind = "idle"

\* custom_pdf_query_endpoint handing query_rag the report model.
custom_pdf_query_endpoint_report_model(t, msgs) ==
    /\ Accepting(t)
    /\ task' = [task EXCEPT ![t] =
                  [Idle EXCEPT !.kind = "custom", !.pc = "json",
                               !.colpali_model = report_model,
                               !.messages = msgs]]
    /\ UNCHANGED <<custom_pdf_model, report_model, models, uploaded_dir, running,
                   log_tasks, log_file>>

\* custom_pdf_query_endpoint: query_rag(request, custom_pdf_model); the global
\* is read when the handler starts, then query_rag awaits request.json().
custom_pdf_query_endpoint(t, msgs) ==
    /\ Accepting(t)
    /\ task' = [task EXCEPT ![t] =
                  [Idle EXCEPT !.kind = "custom", !.pc = "json",
                               !.colpali_model = custom_pdf_model,
                               !.messages = msgs]]
    /\ UNCHANGED <<custom_pdf_model, report_model, models, uploaded_dir, running,
                   log_tasks, log_file>>

\* report_query_endpoint: query_rag(request, report_model).
report_query_endpoint(t, msgs) ==
    /\ Accepting(t)
    /\ task' = [task EXCEPT ![t] =
                  [Idle EXCEPT !.kind = "report", !.pc = "json",
                               !.colpali_model = report_model,
                               !.messages = msgs]]
    /\ UNCHANGED <<custom_pdf_model, report_model, models, uploaded_dir, running,
                   log_tasks, log_file>>

IsQuery(r) == r.kind \in {"custom", "report"}

\* has_history off by one: len(messages) > 2.
has_history_off_by_one(messages) == Len(messages) > 2

\* if len(messages) > 1: there is history to extract context from.
has_history(messages) == Len(messages) > 1

\* query_rag, from the return of request.json() to the first LLM call or, for
\* a single message, to the search.  messages[-1] of an empty list raises
\* IndexError.
query_rag_messages(t) ==
    /\ running = "free"
    /\ IsQuery(task[t])
    /\ task[t].pc = "json"
    /\ LET r    == task[t]
           n    == Len(r.messages)
           cur  == get_content(r.messages[n])
       IN  IF n = 0
           THEN /\ task' = [task EXCEPT ![t] =
                              [r EXCEPT !.pc = "done", !.outcome = "IndexError"]]
                /\ UNCHANGED <<running, log_tasks>>
           ELSE IF has_history(r.messages)
           THEN /\ task' = [task EXCEPT ![t] =
                              [r EXCEPT !.pc = "ctx_call",
                                        !.retry_delay_bound = TRUE]]
                /\ running' = t
                /\ UNCHANGED log_tasks
           ELSE /\ task' = [task EXCEPT ![t] =
                              [r EXCEPT !.pc = "search",
                                        !.relevant_context = <<>>,
                                        !.query = build_query(<<>>, cur),
                                        !.scheduled = Append(@, "query")]]
                /\ running' = t
                /\ log_tasks' = create_log_task(log_tasks, "query")
    /\ UNCHANGED <<custom_pdf_model, report_model, models, uploaded_dir, log_file>>

\* The context-extraction call without .strip() on the returned content.
query_rag_context_unstripped(t, text) ==
    /\ running = t
    /\ task[t].pc = "ctx_call"
    /\ LET r   == task[t]
           cur == get_content(r.messages[Len(r.messages)])
       IN  task' = [task EXCEPT ![t] =
                      [r EXCEPT !.pc = "search",
                                !.ctx = [@ EXCEPT !.attempts = @ + 1, !.ok = TRUE,
                                                  !.last = "ok"],
                                !.relevant_context = text,
                                !.query = build_query(text, cur),
                                !.scheduled = Append(@, "query")]]
    /\ log_tasks' = create_log_task(log_tasks, "query")
    /\ UNCHANGED <<custom_pdf_model, report_model, models, uploaded_dir, running,
                   log_file>>

\* One attempt of the context-extraction call that returns `text`.
query_rag_context(t, text) ==
    /\ running = t
    /\ task[t].pc = "ctx_call"
    /\ LET r   == task[t]
           cur == get_content(r.messages[Len(r.messages)])
           rc  == strip(text)
       IN  task' = [task EXCEPT ![t] =
                      [r EXCEPT !.pc = "search",
                                !.ctx = [@ EXCEPT !.attempts = @ + 1, !.ok = TRUE,
                                                  !.last = "ok"],
                                !.relevant_context = rc,
                                !.query = build_query(rc, cur),
                                !.scheduled = Append(@, "query")]]
    /\ log_tasks' = create_log_task(log_tasks, "query")
    /\ UNCHANGED <<custom_pdf_model, report_model, models, uploaded_dir, running,
                   log_file>>

\* One attempt of the context-extraction call that raises e.
query_rag_context_error(t, e) ==
    /\ running = t
    /\ task[t].pc = "ctx_call"
    /\ Transient(e) => task[t].ctx.fails + task[t].cmp.fails < MaxFail
    /\ LET r == task[t]
           h == context_extraction_except(e)
           c == [r.ctx EXCEPT !.attempts = @ + 1,
                              !.fails = IF Transient(e) THEN @ + 1 ELSE @,
                              !.sleeps = IF h.do = "retry" THEN @ + 1 ELSE @,
                              !.last = IF Transient(e) THEN "transient" ELSE "fatal"]
       IN  /\ task' = [task EXCEPT ![t] =
                         [r EXCEPT !.ctx = c,
                                   !.scheduled = scheduled_log(@, h.log),
                                   !.pc = IF h.do = "retry" THEN "ctx_sleep" ELSE "done",
                                   !.outcome = IF h.do = "retry" THEN @ ELSE h.exc]]
           /\ log_tasks' = create_log_task(log_tasks, h.log)
    /\ running' = "free"
    /\ UNCHANGED <<custom_pdf_model, report_model, models, uploaded_dir, log_file>>

\* asyncio.sleep(retry_delay) is over: the loop of the call goes round.
query_rag_context_retry(t) ==
    /\ running = "free"
    /\ task[t].pc = "ctx_sleep"
    /\ task' = [task EXCEPT ![t].pc = "ctx_call"]
    /\ running' = t
    /\ UNCHANGED <<custom_pdf_model, report_model, models, uploaded_dir, log_tasks,
                   log_file>>

\* results = colpali_model.search(query, k=5)
query_rag_search(t) ==
    /\ running = t
    /\ task[t].pc = "search"
    /\ LET r == task[t]
       IN  task' = [task EXCEPT ![t] =
                      [r EXCEPT !.pc = "cmp_call",
                                !.results = search(models[r.colpali_model], r.query, SearchK),
                                !.searched = Append(@, r.query)]]
    /\ UNCHANGED <<custom_pdf_model, report_model, models, uploaded_dir, running,
                   log_tasks, log_file>>

\* One attempt of the completion call that returns `text`.
query_rag_completion(t, text) ==
    /\ running = t
    /\ task[t].pc = "cmp_call"
    /\ task' = [task EXCEPT ![t] =
                  [@ EXCEPT !.pc = "annotate",
                            !.cmp = [@ EXCEPT !.attempts = @ + 1, !.ok = TRUE,
                                              !.last = "ok"],
                            !.completion = text,
                            !.answer = text,
                            !.scheduled = Append(@, "answer")]]
    /\ log_tasks' = create_log_task(log_tasks, "answer")
    /\ UNCHANGED <<custom_pdf_model, report_model, models, uploaded_dir, running,
                   log_file>>

\* One attempt of the completion call that raises e.
query_rag_completion_error(t, e) ==
    /\ running = t
    /\ task[t].pc = "cmp_call"
    /\ Transient(e) => task[t].ctx.fails + task[t].cmp.fails < MaxFail
    /\ LET r == task[t]
           h == completion_except(e, r.retry_delay_bound)
           c == [r.cmp EXCEPT !.attempts = @ + 1,
                              !.fails = IF Transient(e) THEN @ + 1 ELSE @,
                              !.sleeps = IF h.do = "retry" THEN @ + 1 ELSE @,
                              !.last = IF Transient(e) THEN "transient" ELSE "fatal"]
       IN  /\ task' = [task EXCEPT ![t] =
                         [r EXCEPT !.cmp = c,
                                   !.scheduled = scheduled_log(@, h.log),
                                   !.pc = IF h.do = "retry" THEN "cmp_sleep" ELSE "done",
                                   !.outcome = IF h.do = "retry" THEN @ ELSE h.exc]]
           /\ log_tasks' = create_log_task(log_tasks, h.log)
    /\ running' = "free"
    /\ UNCHANGED <<custom_pdf_model, report_model, models, uploaded_dir, log_file>>

\* The retry of the completion call with the search inside its loop.
query_rag_completion_retry_from_search(t) ==
    /\ running = "free"
    /\ task[t].pc = "cmp_sleep"
    /\ task' = [task EXCEPT ![t].pc = "search"]
    /\ running' = t
    /\ UNCHANGED <<custom_pdf_model, report_model, models, uploaded_dir, log_tasks,
                   log_file>>

\* asyncio.sleep(retry_delay) is over: the loop of the completion call goes
\* round.
query_rag_completion_retry(t) ==
    /\ running = "free"
    /\ task[t].pc = "cmp_sleep"
    /\ task' = [task EXCEPT ![t].pc = "cmp_call"]
    /\ running' = t
    /\ UNCHANGED <<custom_pdf_model, report_model, models, uploaded_dir, log_tasks,
                   log_file>>

\* highlighted_images without the cut at num_images_to_highlight.
highlighted_images_all(result_images, keywords) ==
    IF keywords # <<>>
    THEN [i \in 1..Len(result_images)
            |-> highlight_keywords_in_image(result_images[i], keywords)]
    ELSE <<>>

\* highlighted_images of query_rag.
highlighted_images(result_images, keywords) ==
    IF keywords # <<>>
    THEN [i \in 1..Min({num_images_to_highlight, Len(result_images)})
            |-> highlight_keywords_in_image(result_images[i], keywords)]
    ELSE <<>>

\* The value query_rag returns.
query_rag_response(answer, images) ==
    [answer |-> answer, highlighted_images |-> images]

\* Keyword extraction, highlighting and the return of query_rag.
query_rag_annotate(t) ==
    /\ running = t
    /\ task[t].pc = "annotate"
    /\ LET r             == task[t]
           result_images == [i \in 1..Len(r.results) |-> r.results[i].base64]
           kw            == extract_keywords(r.answer)
           ans           == remove_keywords(r.answer)
           hi            == highlighted_images(result_images, kw)
       IN  task' = [task EXCEPT ![t] =
                      [r EXCEPT !.pc = "done", !.outcome = "ok",
                                !.keywords = kw, !.answer = ans,
                                !.annotated = TRUE,
                                !.highlight_calls = Len(hi),
                                !.response = query_rag_response(ans, hi)]]
    /\ running' = "free"
    /\ UNCHANGED <<custom_pdf_model, report_model, models, uploaded_dir, log_tasks,
                   log_file>>

\* ------------------------------------------------------------------ upload
\* process_pdf_upload without the content-type check.
process_pdf_upload_unchecked(r, file, model) ==
    [r EXCEPT !.kind = "upload", !.pc = "read", !.file = file,
              !.colpali_model = model]

\* process_pdf_upload up to `await file.read()`: the content-type check, then
\* open(file_path, 'wb').
process_pdf_upload(r, file, model) ==
    IF file.content_type # PdfType
    THEN [r EXCEPT !.kind = "upload", !.pc = "done", !.file = file,
                   !.colpali_model = model,
                   !.outcome = "HTTPException(400)",
                   !.detail = "Only PDF files are allowed."]
    ELSE [r EXCEPT !.kind = "upload", !.pc = "read", !.file = file,
                   !.colpali_model = model]

\* upload_pdf without the rebinding: the model at hand is passed on.
upload_pdf_keeps_model(t, file) ==
    /\ Accepting(t)
    /\ LET r == process_pdf_upload(Idle, file, custom_pdf_model)
       IN  /\ task' = [task EXCEPT ![t] = r]
           /\ uploaded_dir' = IF r.pc = "read"
                              THEN [uploaded_dir EXCEPT ![file.filename] = "open"]
                              ELSE uploaded_dir
    /\ UNCHANGED <<custom_pdf_model, models, report_model, running, log_tasks,
                   log_file>>

\* upload_pdf: the global is rebound to a fresh model, then
\* process_pdf_upload(file, custom_pdf_model) runs up to its await.
upload_pdf(t, file) ==
    /\ Accepting(t)
    /\ LET m == Len(models) + 1
           r == process_pdf_upload(Idle, file, m)
       IN  /\ models' = Append(models, <<>>)
           /\ custom_pdf_model' = m
           /\ task' = [task EXCEPT ![t] = r]
           /\ uploaded_dir' = IF r.pc = "read"
                              THEN [uploaded_dir EXCEPT ![file.filename] = "open"]
                              ELSE uploaded_dir
    /\ UNCHANGED <<report_model, running, log_tasks, log_file>>

\* process_pdf_upload that indexes into the global custom_pdf_model instead
\* of the model it was handed.
process_pdf_upload_index_global(t) ==
    /\ running = "free"
    /\ task[t].kind = "upload"
    /\ task[t].pc = "read"
    /\ LET r == task[t]
       IN  /\ uploaded_dir' = [uploaded_dir EXCEPT ![r.file.filename] = "written"]
           /\ models' = [models EXCEPT ![custom_pdf_model] =
                           index_of(r.file.filename, r.file.pages)]
           /\ task' = [task EXCEPT ![t] =
                         [r EXCEPT !.pc = "done", !.outcome = "ok",
                                   !.file_written = TRUE,
                                   !.index_calls = @ + 1,
                                   !.response = [message |-> "PDF uploaded and processed"]]]
    /\ UNCHANGED <<custom_pdf_model, report_model, running, log_tasks, log_file>>

\* process_pdf_upload after file.read(): the bytes are written and the model
\* it was handed indexes the file.
process_pdf_upload_index(t) ==
    /\ running = "free"
    /\ task[t].kind = "upload"
    /\ task[t].pc = "read"
    /\ LET r == task[t]
       IN  /\ uploaded_dir' = [uploaded_dir EXCEPT ![r.file.filename] = "written"]
           /\ models' = [models EXCEPT ![r.colpali_model] =
                           index_of(r.file.filename, r.file.pages)]
           /\ task' = [task EXCEPT ![t] =
                         [r EXCEPT !.pc = "done", !.outcome = "ok",
                                   !.file_written = TRUE,
                                   !.index_calls = @ + 1,
                                   !.response = [message |-> "PDF uploaded and processed"]]]
    /\ UNCHANGED <<custom_pdf_model, report_model, running, log_tasks, log_file>>

\* ------------------------------------------------------------------ chat
chat(t, msgs) ==
    /\ Accepting(t)
    /\ task' = [task EXCEPT ![t] =
                  [Idle EXCEPT !.kind = "chat", !.pc = "json", !.messages = msgs]]
    /\ UNCHANGED <<custom_pdf_model, report_model, models, uploaded_dir, running,
                   log_tasks, log_file>>

\* chat after request.json(): an empty list is refused with 400, otherwise
\* the streaming completion is created (one attempt, no retry).
chat_messages(t, ok) ==
    /\ running = "free"
    /\ task[t].kind = "chat"
    /\ task[t].pc = "json"
    /\ LET r == task[t]
       IN  task' = [task EXCEPT ![t] =
             IF r.messages = <<>>
             THEN [r EXCEPT !.pc = "done", !.outcome = "HTTPException(400)",
                            !.detail = "No messages provided."]
             ELSE [r EXCEPT !.pc = "done",
                            !.cmp = [@ EXCEPT !.attempts = @ + 1, !.ok = ok,
                                              !.last = IF ok THEN "ok" ELSE "fatal"],
                            !.outcome = IF ok THEN "ok" ELSE "APIError",
                            !.response = IF ok THEN [stream |-> TRUE] ELSE @]]
    /\ UNCHANGED <<custom_pdf_model, report_model, models, uploaded_dir, running,
                   log_tasks, log_file>>

\* ------------------------------------------------------------------ specification
Next ==
    \/ \E t \in QuerySlots, msgs \in Conversations : custom_pdf_query_endpoint(t, msgs)
    \/ \E t \in QuerySlots, msgs \in Conversations : report_query_endpoint(t, msgs)
    \/ \E t \in QuerySlots : query_rag_messages(t)
    \/ \E t \in QuerySlots, text \in ContextTexts : query_rag_context(t, text)
    \/ \E t \in QuerySlots, e \in Failures : query_rag_context_error(t, e)
    \/ \E t \in QuerySlots : query_rag_context_retry(t)
    \/ \E t \in QuerySlots : query_rag_search(t)
    \/ \E t \in QuerySlots, text \in AnswerTexts : query_rag_completion(t, text)
    \/ \E t \in QuerySlots, e \in Failures : query_rag_completion_error(t, e)
    \/ \E t \in QuerySlots : query_rag_completion_retry(t)
    \/ \E t \in QuerySlots : query_rag_annotate(t)
    \/ \E t \in UploadSlots, file \in UploadFiles : upload_pdf(t, file)
    \/ \E t \in UploadSlots : process_pdf_upload_index(t)
    \/ \E t \in ChatSlots, msgs \in ChatBodies : chat(t, msgs)
    \/ \E t \in ChatSlots, ok \in BOOLEAN : chat_messages(t, ok)
    \/ log_query
    \/ log_query_fails

Spec == Init /\ [][Next]_vars

\* Uploads that follow or overlap one another, and questions to the uploaded
\* document: the handlers of /upload-pdf and /custom-pdf-query with an
\* upstream LLM that answers at the first attempt.
Questions == {msgs \in Conversations : Len(msgs) = 1}

NextUploads ==
    \/ \E t \in Uploads, file \in UploadFiles : upload_pdf(t, file)
    \/ \E t \in Uploads : process_pdf_upload_index(t)
    \/ \E t \in QuerySlots, msgs \in Questions : custom_pdf_query_endpoint(t, msgs)
    \/ \E t \in QuerySlots : query_rag_messages(t)
    \/ \E t \in QuerySlots : query_rag_search(t)
    \/ \E t \in QuerySlots, text \in AnswerTexts : query_rag_completion(t, text)
    \/ \E t \in QuerySlots : query_rag_annotate(t)

SpecUploads == Init /\ [][NextUploads]_vars

\* The uploads and questions of SpecUploads together with questions to the
\* report corpus: the three handlers that use a retrieval model.
NextNamespaces ==
    \/ NextUploads
    \/ \E t \in QuerySlots, msgs \in Questions : report_query_endpoint(t, msgs)

SpecNamespaces == Init /\ [][NextNamespaces]_vars

\* One question to the report corpus, answered at the first attempt with any
\* text of AnswerSpace: the path of an answer through query_rag.
NextAnswers ==
    \/ \E t \in QuerySlots, msgs \in Questions : report_query_endpoint(t, msgs)
    \/ \E t \in QuerySlots : query_rag_messages(t)
    \/ \E t \in QuerySlots : query_rag_search(t)
    \/ \E t \in QuerySlots :
         /\ task[t].pc = "cmp_call"
         /\ \E text \in AnswerSpace : query_rag_completion(t, text)
    \/ \E t \in QuerySlots : query_rag_annotate(t)

SpecAnswers == Init /\ [][NextAnswers]_vars

\* ------------------------------------------------------------------ properties
Count(seq, kind) == Cardinality({i \in 1..Len(seq) : seq[i] = kind})

\* The retry bookkeeping the retry policy promises for one call site: every
\* transient failure is followed by a backoff sleep and a scheduled log entry,
\* the request is not ended by it, and a call that got its text took one
\* attempt more than it met transient failures.
RetriedAsPromised(r, call, retry_kind, retry_pcs) ==
    /\ call.sleeps = call.fails
    /\ Count(r.scheduled, retry_kind) = call.fails
    /\ call.last = "transient" => r.pc \in retry_pcs /\ r.outcome = "pending"
    /\ call.ok => call.attempts = call.fails + 1

\* C1: for each LLM call of query_rag and for conversations of any length >= 1
\* (single-message ones included), N transient failures followed by a success
\* give N+1 attempts, N backoff sleeps and N transient-failure log entries,
\* and the pipeline goes on with the text that came back.
C1_RetryThenSuccess ==
    \A t \in QuerySlots :
        LET r == task[t]
        IN  Len(r.messages) >= 1 =>
              /\ RetriedAsPromised(r, r.ctx, "ctx_retry", {"ctx_sleep", "ctx_call"})
              /\ RetriedAsPromised(r, r.cmp, "cmp_retry", {"cmp_sleep", "cmp_call"})
              /\ r.cmp.ok => r.pc \in {"annotate", "done"} /\ r.outcome \in {"pending", "ok"}

\* C2: an LLM failure that is not transient ends the request at once with the
\* error: the failed attempt is followed by no sleep and no further attempt,
\* and no later stage (search, completion, keyword extraction, highlighting)
\* has run or will run.
C2_FatalPropagates ==
    \A t \in QuerySlots :
        LET r == task[t]
        IN  /\ r.ctx.last = "fatal" =>
                 /\ r.pc = "done"
                 /\ r.outcome \in {"APIError", "AttributeError", "Exception"}
                 /\ r.ctx.attempts = r.ctx.sleeps + 1
                 /\ r.searched = <<>>
                 /\ r.cmp.attempts = 0
                 /\ ~r.annotated /\ r.highlight_calls = 0
                 /\ r.response = Idle.response
            /\ r.cmp.last = "fatal" =>
                 /\ r.pc = "done"
                 /\ r.outcome \in {"APIError", "AttributeError", "Exception"}
                 /\ r.cmp.attempts = r.cmp.sleeps + 1
                 /\ Len(r.searched) = 1
                 /\ ~r.annotated /\ r.highlight_calls = 0
                 /\ r.response = Idle.response

\* A completion call that was retried and then met a fatal error, after a
\* context-extraction call that succeeded.
C2_Witness ==
    \E t \in QuerySlots :
        /\ task[t].cmp.last = "fatal"
        /\ task[t].cmp.fails >= 1
        /\ task[t].ctx.ok

\* C3: every retry and every fatal failure of an LLM call schedules a log
\* entry before the sleep or the re-raise; a non-retryable APIError is logged
\* as unexpected before it is re-raised.
C3_FailuresLogged ==
    \A t \in QuerySlots :
        LET r == task[t]
        IN  /\ Count(r.scheduled, "ctx_retry") = r.ctx.fails
            /\ Count(r.scheduled, "cmp_retry") = r.cmp.fails
            /\ r.ctx.last = "fatal" => Count(r.scheduled, "ctx_unexpected") = 1
            /\ r.cmp.last = "fatal" => Count(r.scheduled, "cmp_unexpected") = 1

\* C4: a request with an empty message list is refused as a validation error
\* (400, no messages) without any LLM call, search or retry, on the query
\* endpoints as on chat.
C4_EmptyMessagesRejected ==
    \A t \in QuerySlots \cup ChatSlots :
        LET r == task[t]
        IN  (r.kind \in {"custom", "report", "chat"} /\ r.messages = <<>> /\ r.pc = "done") =>
              /\ r.outcome = "HTTPException(400)"
              /\ r.detail = "No messages provided."
              /\ r.ctx.attempts = 0 /\ r.cmp.attempts = 0
              /\ r.ctx.sleeps = 0 /\ r.cmp.sleeps = 0
              /\ r.searched = <<>>

\* C5: with exactly one message no context-extraction call is made and the
\* query handed to the retriever is the content of that message, unchanged.
C5_SingleMessageUnchanged ==
    \A t \in QuerySlots :
        LET r == task[t]
        IN  (IsQuery(r) /\ Len(r.messages) = 1) =>
              /\ r.ctx.attempts = 0
              /\ r.pc \notin {"idle", "json"} => r.query = get_content(r.messages[1])
              /\ \A i \in 1..Len(r.searched) : r.searched[i] = get_content(r.messages[1])

\* A single message with blanks around its text has reached the retriever.
C5_Witness ==
    \E t \in QuerySlots :
        /\ Len(task[t].messages) = 1
        /\ task[t].searched # <<>>
        /\ strip(get_content(task[t].messages[1])) # get_content(task[t].messages[1])

\* C6: with more than one message the context-extraction call is made exactly
\* once (one call that returns, one attempt more than it met transient
\* failures) and has returned before the retriever is invoked.
C6_OneContextCallBeforeSearch ==
    \A t \in QuerySlots :
        LET r == task[t]
        IN  (IsQuery(r) /\ Len(r.messages) > 1) =>
              /\ r.searched # <<>> => r.ctx.ok
              /\ r.pc \in {"search", "cmp_call", "cmp_sleep", "annotate"} => r.ctx.ok
              /\ r.outcome = "ok" => r.ctx.ok
              /\ r.ctx.ok => r.ctx.attempts = r.ctx.fails + 1
              /\ Len(r.searched) <= 1

\* The retriever has been invoked for a conversation with history whose
\* context-extraction call was retried first.
C6_Witness ==
    \E t \in QuerySlots :
        /\ Len(task[t].messages) > 1
        /\ task[t].searched # <<>>
        /\ task[t].ctx.fails >= 1

\* C7: with more than one message the search query never contains the filler
\* phrase, whatever the context-extraction call returned.
C7_NoFillerInQuery ==
    \A t \in QuerySlots :
        LET r == task[t]
        IN  (IsQuery(r) /\ Len(r.messages) > 1) =>
              /\ ~Contains(r.query, Filler)
              /\ \A i \in 1..Len(r.searched) : ~Contains(r.searched[i], Filler)

\* C8: a search that returns nothing ends the request with EmptyIndex and the
\* completion call is never issued.
C8_EmptyIndexStops ==
    \A t \in QuerySlots :
        LET r == task[t]
        IN  (r.searched # <<>> /\ r.results = <<>>) =>
              /\ r.cmp.attempts = 0
              /\ r.pc = "done" => r.outcome = "EmptyIndex"

\* C9: an upload that is not a PDF is refused with 400 before the file is
\* written and before the model is asked to index or embed anything.
C9_NonPdfRejectedFirst ==
    \A t \in UploadSlots :
        LET r == task[t]
        IN  (r.kind = "upload" /\ r.file.content_type # PdfType) =>
              /\ r.pc = "done"
              /\ r.outcome = "HTTPException(400)"
              /\ r.detail = "Only PDF files are allowed."
              /\ ~r.file_written
              /\ uploaded_dir[r.file.filename] = "absent"
              /\ r.index_calls = 0
              /\ models[r.colpali_model] = <<>>

\* An upload of a text file has been refused.
C9_Witness ==
    \E t \in UploadSlots :
        /\ task[t].kind = "upload"
        /\ task[t].file.content_type # PdfType
        /\ task[t].pc = "done"

\* C10: a successful query response carries the (doc_id, page) of the
\* top-ranked result as a citation.
C10_TopResultCited ==
    \A t \in QuerySlots :
        LET r == task[t]
        IN  (IsQuery(r) /\ r.pc = "done" /\ r.outcome = "ok" /\ r.results # <<>>) =>
              /\ "citation" \in DOMAIN r.response
              /\ r.response.citation =
                    [doc_id |-> r.results[1].doc_id, page |-> r.results[1].page_num]

\* The handler of r is at one of the external calls of query_rag: the
\* context-extraction call, the index search or the completion call.
AtExternalCall(r) == IsQuery(r) /\ r.pc \in {"ctx_call", "search", "cmp_call"}

\* The handler of r is parked at an await and goes on as soon as the loop
\* is free.
Suspended(r) == r.pc \in {"json", "read", "ctx_sleep", "cmp_sleep"}

\* C11: while one request waits on an external call (LLM completion, index
\* search, indexing) the call is a suspension point of its task: the request
\* does not hold the event loop, so that another request parked at an await
\* can go on.
C11_ExternalCallsSuspend ==
    \A t \in QuerySlots, u \in Tasks :
        (u # t /\ AtExternalCall(task[t]) /\ Suspended(task[u])) => running # t

\* C12: a log write that fails is never seen by a request: the step that
\* takes a log task off the queue, written or failed, changes no request, no
\* model and not the holder of the loop, so the response is the one of a
\* successful write and no handler step is one that a log write makes.
C12_LogFailureUnseen ==
    [][(log_tasks # <<>> /\ log_tasks' = Tail(log_tasks))
         => /\ task' = task
            /\ running' = running
            /\ models' = models
            /\ custom_pdf_model' = custom_pdf_model]_vars

\* A query has returned its response although none of the log writes it
\* scheduled has been written: one failed, the others are still pending.
C12_Witness ==
    \E t \in QuerySlots :
        /\ task[t].pc = "done"
        /\ task[t].outcome = "ok"
        /\ log_file = 0
        /\ log_tasks # <<>>
        /\ Len(log_tasks) < Len(task[t].scheduled)

\* C13: within one request the stages run in the order compression,
\* retrieval, synthesis, annotation; a stage starts only after the one before
\* it has completed successfully, and no stage runs twice except as the retry
\* of its own LLM call after a transient failure.
C13_StagesInOrder ==
    [][\A t \in QuerySlots :
         LET r == task[t]
             n == task'[t]
         IN  /\ n.ctx.attempts > r.ctx.attempts =>
                  /\ has_history(r.messages)
                  /\ ~r.ctx.ok /\ r.searched = <<>> /\ r.cmp.attempts = 0 /\ ~r.annotated
                  /\ r.ctx.attempts > 0 => r.ctx.last = "transient"
             /\ Len(n.searched) > Len(r.searched) =>
                  /\ has_history(r.messages) => r.ctx.ok
                  /\ r.searched = <<>> /\ r.cmp.attempts = 0 /\ ~r.annotated
             /\ n.cmp.attempts > r.cmp.attempts =>
                  /\ Len(r.searched) = 1
                  /\ ~r.cmp.ok /\ ~r.annotated
                  /\ r.cmp.attempts > 0 => r.cmp.last = "transient"
             /\ (r.pc = "annotate" /\ n.pc = "done") =>
                  /\ r.cmp.ok /\ Len(r.searched) = 1 /\ ~r.annotated
                  /\ n.annotated]_vars

\* A conversation with history has gone through all four stages, with a
\* retry in the compression and a retry in the synthesis.
C13_Witness ==
    \E t \in QuerySlots :
        /\ task[t].annotated
        /\ task[t].ctx.fails >= 1
        /\ task[t].cmp.fails >= 1
        /\ Len(task[t].searched) = 1

\* C14: a retryable error of the upstream LLM never ends a request: as long
\* as the latest attempt of a call met a retryable error the request has
\* neither returned nor raised, it is asleep before the next attempt or
\* making it (there is no cap on attempts and no deadline).
C14_TransientNeverEnds ==
    \A t \in QuerySlots :
        LET r == task[t]
        IN  (IsQuery(r) /\ r.messages # <<>>) =>
              /\ r.ctx.last = "transient" =>
                   r.pc \in {"ctx_sleep", "ctx_call"} /\ r.outcome = "pending"
              /\ r.cmp.last = "transient" =>
                   r.pc \in {"cmp_sleep", "cmp_call"} /\ r.outcome = "pending"

\* The upload requests that have started, and the one that started last: each
\* upload_pdf creates the next model object, so the order of the model
\* numbers is the order in which the handlers started.
StartedUploads == {u \in Uploads : task[u].kind = "upload"}

LatestUpload ==
    CHOOSE u \in StartedUploads :
        \A v \in StartedUploads : task[v].colpali_model <= task[u].colpali_model

\* C15: after any sequence of successful uploads the uploaded namespace holds
\* the pages of the most recently uploaded document and nothing else: the
\* model a query is handed has exactly that document's pages (one generation,
\* the chunks of earlier uploads are gone), and every page a query retrieves
\* from it belongs to that document.
C15_OnlyLatestUpload ==
    (StartedUploads # {} /\ \A u \in StartedUploads : task[u].outcome = "ok") =>
        LET file == task[LatestUpload].file
        IN  /\ models[custom_pdf_model] = index_of(file.filename, file.pages)
            /\ \A q \in QuerySlots :
                 (task[q].kind = "custom" /\ task[q].colpali_model = custom_pdf_model) =>
                    \A i \in 1..Len(task[q].results) :
                        task[q].results[i].doc_id = file.filename

\* Two uploads of different documents have succeeded and a query handed the
\* current model has retrieved pages.
C15_Witness ==
    /\ \A u \in Uploads : task[u].kind = "upload" /\ task[u].outcome = "ok"
    /\ \E u, v \in Uploads : task[u].file.filename # task[v].file.filename
    /\ \E q \in QuerySlots :
         /\ task[q].kind = "custom"
         /\ task[q].colpali_model = custom_pdf_model
         /\ task[q].results # <<>>

\* y is x without the whitespace around it.
Trimmed(x, y) ==
    /\ y # <<>> => y[1] \notin Whitespace /\ y[Len(y)] \notin Whitespace
    /\ \E i, j \in 0..Len(x) :
         /\ i + j <= Len(x)
         /\ y = SubSeq(x, i + 1, Len(x) - j)
         /\ \A k \in 1..i : x[k] \in Whitespace
         /\ \A k \in (Len(x) - j + 1)..Len(x) : x[k] \in Whitespace

MarkerAt(s) == {i \in 1..Len(s) : s[i] \in MarkerTokens}

\* C16: when the LLM answer contains the marker **Keywords:** in any
\* capitalisation, the answer of the response is the text before the first
\* marker without the whitespace around it; no marker and nothing that
\* followed one is in it.
C16_AnswerBeforeMarker ==
    \A t \in QuerySlots :
        LET r == task[t]
        IN  (IsQuery(r) /\ r.outcome = "ok" /\ MarkerAt(r.completion) # {}) =>
              /\ Trimmed(SubSeq(r.completion, 1, Min(MarkerAt(r.completion)) - 1),
                         r.response.answer)
              /\ MarkerAt(r.response.answer) = {}
              /\ Len(r.response.answer) < Min(MarkerAt(r.completion))

\* An answer with a lower-case marker, blanks before it and a second marker
\* after it has been returned as the word before the first marker.
C16_Witness ==
    \E t \in QuerySlots :
        /\ task[t].outcome = "ok"
        /\ task[t].response.answer = <<"found">>
        /\ Cardinality(MarkerAt(task[t].completion)) = 2
        /\ task[t].completion[Min(MarkerAt(task[t].completion))] = "**keywords:**"
        /\ task[t].completion[Min(MarkerAt(task[t].completion)) - 1] \in Whitespace

\* C17: when the LLM answer contains no marker, no keyword is extracted and
\* the answer of the response is the LLM answer, unchanged, whitespace at its
\* ends included.
C17_NoMarkerUnchanged ==
    \A t \in QuerySlots :
        LET r == task[t]
        IN  (IsQuery(r) /\ r.outcome = "ok" /\ MarkerAt(r.completion) = {}) =>
              /\ r.keywords = <<>>
              /\ r.response.answer = r.completion

\* C18: an upload and a custom-pdf query can interleave so that the query
\* searches a model without a complete index generation.  While the latest
\* upload is parked at file.read(), the global custom_pdf_model is the model
\* that upload created and it is not yet indexed, whatever was uploaded
\* before; a query that was handed this model and searched it got nothing.
C18_QuerySeesUnindexedModel ==
    \A u \in Uploads :
        (task[u].kind = "upload" /\ task[u].pc = "read" /\ u = LatestUpload) =>
            /\ custom_pdf_model = task[u].colpali_model
            /\ models[custom_pdf_model] = <<>>
            /\ task[u].index_calls = 0
            /\ \A q \in QuerySlots :
                 (/\ task[q].kind = "custom"
                  /\ task[q].colpali_model = task[u].colpali_model
                  /\ task[q].searched # <<>>) => task[q].results = <<>>

\* The interleaving: a first upload has been indexed, a second one is parked
\* at file.read(), and a query that started in between has searched the
\* second upload's model and retrieved nothing.
C18_Witness ==
    \E u, v \in Uploads, q \in QuerySlots :
        /\ task[v].outcome = "ok"
        /\ models[task[v].colpali_model] # <<>>
        /\ task[u].kind = "upload" /\ task[u].pc = "read"
        /\ task[u].colpali_model > task[v].colpali_model
        /\ task[q].kind = "custom"
        /\ task[q].colpali_model = task[u].colpali_model
        /\ task[q].searched # <<>>
        /\ task[q].results = <<>>

\* C19: an upload that is refused leaves the uploaded namespace as it was:
\* with one upload that succeeded and one that was refused as not a PDF, the
\* model a custom-pdf query is handed still holds the pages of the upload that
\* succeeded, and a query that was handed it retrieves those pages.
C19_RejectedUploadKeepsIndex ==
    \A u, v \in Uploads :
        (/\ task[v].kind = "upload" /\ task[v].outcome = "ok"
         /\ task[u].kind = "upload" /\ task[u].outcome = "HTTPException(400)") =>
            LET index == index_of(task[v].file.filename, task[v].file.pages)
            IN  /\ models[custom_pdf_model] = index
                /\ \A q \in QuerySlots :
                     (/\ task[q].kind = "custom"
                      /\ task[q].colpali_model = custom_pdf_model
                      /\ task[q].searched # <<>>) =>
                        task[q].results = search(index, task[q].query, SearchK)

\* C20: in every response of query_rag there is no highlighted image and no
\* call of the highlight routine when no keyword was extracted; otherwise
\* there are min(2, number of retrieved results) highlighted images, one call
\* each, and the i-th is made from the i-th result with the extracted
\* keywords.
C20_HighlightedImages ==
    \A t \in QuerySlots :
        LET r  == task[t]
            hi == r.response.highlighted_images
        IN  (IsQuery(r) /\ r.pc = "done" /\ r.outcome = "ok") =>
              /\ r.keywords = extract_keywords(r.completion)
              /\ r.keywords = <<>> => hi = <<>> /\ r.highlight_calls = 0
              /\ r.keywords # <<>> =>
                   /\ Len(hi) = Min({2, Len(r.results)})
                   /\ r.highlight_calls = Len(hi)
                   /\ \A i \in 1..Len(hi) :
                        /\ hi[i].image = r.results[i].base64
                        /\ hi[i].keywords = r.keywords

\* A response with keywords for a search that retrieved a single page: one
\* highlighted image.
C20_Witness ==
    \E t \in QuerySlots :
        /\ task[t].pc = "done" /\ task[t].outcome = "ok"
        /\ task[t].keywords # <<>>
        /\ Len(task[t].results) = 1
        /\ Len(task[t].response.highlighted_images) = 1

\* C21: for a conversation with more than one message the search query is
\* the extracted context (the text the context-extraction call returned,
\* without the whitespace around it), one newline, then the current message;
\* when the extracted context is empty after trimming, the search query is
\* the current message itself, with no newline in front.
C21_ContextNewlineQuery ==
    \A t \in QuerySlots :
        LET r   == task[t]
            cur == get_content(r.messages[Len(r.messages)])
            rc  == r.relevant_context
        IN  (IsQuery(r) /\ Len(r.messages) > 1 /\ r.ctx.ok) =>
              /\ \E text \in ContextTexts : Trimmed(text, rc)
              /\ rc # <<>> =>
                   /\ Len(r.query) = Len(rc) + 1 + Len(cur)
                   /\ SubSeq(r.query, 1, Len(rc)) = rc
                   /\ r.query[Len(rc) + 1] = "\n"
                   /\ SubSeq(r.query, Len(rc) + 2, Len(r.query)) = cur
              /\ rc = <<>> => r.query = cur
              /\ \A i \in 1..Len(r.searched) : r.searched[i] = r.query

\* The retriever has been handed a query made of a context, a newline and a
\* current message that starts with a blank.
C21_Witness ==
    \E t \in QuerySlots :
        /\ Len(task[t].messages) > 1
        /\ task[t].relevant_context # <<>>
        /\ task[t].searched = << task[t].relevant_context \o <<"\n", " ", "revenue">> >>

\* C22: for every answer with the marker, extract_keywords returns, in order
\* of appearance, every single-quoted token after the first marker, the
\* tokens on the lines after the marker's own line included.
C22_AllQuotedAfterMarker ==
    \A t \in QuerySlots :
        LET r == task[t]
            a == r.completion
        IN  (IsQuery(r) /\ r.outcome = "ok" /\ MarkerAt(a) # {}) =>
              r.keywords = findall_quoted(SubSeq(a, Min(MarkerAt(a)) + 1, Len(a)), 1)

\* C23: the two namespaces are isolated.  No step, and so no sequence of
\* uploads, accepted or refused, rebinds report_model or changes the index of
\* the model it names; the global of the uploads never names that model; a
\* report query is handed the report model and retrieves the first pages of
\* the report corpus; a custom-pdf query is never handed the report model and
\* retrieves no page of the report corpus.
C23_NamespacesIsolated ==
    /\ [][/\ report_model' = report_model
          /\ models'[report_model] = models[report_model]]_vars
    /\ [](/\ custom_pdf_model # report_model
          /\ models[report_model] = ReportCorpus
          /\ \A u \in Uploads :
               task[u].kind = "upload" => task[u].colpali_model # report_model
          /\ \A q \in QuerySlots :
               LET r == task[q]
               IN  /\ r.kind = "report" =>
                        /\ r.colpali_model = report_model
                        /\ r.searched # <<>> =>
                             r.results = search(ReportCorpus, r.query, SearchK)
                   /\ r.kind = "custom" =>
                        /\ r.colpali_model # report_model
                        /\ \A i \in 1..Len(r.results) :
                             r.results[i].doc_id # "reports")

\* One upload has been indexed, another has been refused, and a report query
\* has retrieved pages of the report corpus.
C23_Witness ==
    /\ \E u, v \in Uploads :
         /\ task[u].kind = "upload" /\ task[u].outcome = "ok"
         /\ task[v].kind = "upload" /\ task[v].outcome = "HTTPException(400)"
    /\ \E q \in QuerySlots :
         /\ task[q].kind = "report"
         /\ task[q].outcome = "ok"
         /\ task[q].results # <<>>

====
